---- MODULE Spec2Model ----
(***************************************************************************)
(* A model of the Nextcloud public-share crawler of                        *)
(* crawl_nextcloud_public.py: endpoint probing (Crawler.__init__, _probe), *)
(* the retrying PROPFIND (_propfind), the parsing of a multi-status body   *)
(* (list_dir, _node_from_prop), the depth-first walk (crawl.walk), main,   *)
(* and the share URL builder (_browser_url_for_file).                      *)
(*                                                                         *)
(* Strings are sequences of one-character strings, so that slicing,        *)
(* stripping, splitting and percent-encoding are computed, not assumed.    *)
(* A few fixed literals of the code ("download", "?path=", "&files=",      *)
(* the share base URL, the two WebDAV roots) are kept as single symbols.   *)
(*                                                                         *)
(* Spec is the whole program run: probing, crawl, output.  In it a call of *)
(* list_dir is one step; its _propfind is the loop PropfindStep run on a   *)
(* sequence of answers.  SpecPropfind runs the same loop one attempt per   *)
(* step.  SpecUrl applies the URL builder to file paths.                   *)
(***************************************************************************)
EXTENDS Integers, Sequences, FiniteSets, TLC

VARIABLES
    pc,          \* position of main / the crawler
    webdav_root, \* self.webdav_root
    probed,      \* the probes of the running Crawler.__init__: URL and answer
    visited,     \* crawl's visited set of relative paths
    stack,       \* the active walk calls, outermost first
    pf,          \* the frame of a _propfind call
    exc,         \* the exception that ended the program, if any
    queried,     \* relative paths for which list_dir was called, in order
    tree,        \* the value crawl returned
    out,         \* the output file
    exit_code,   \* the exit status of main
    path_in,     \* argument of _browser_url_for_file
    url_out,     \* its result
    response,    \* argument of list_dir's parsing: query URL and entries
    listed,      \* its result
    state_file,  \* data/reminder_state.json: what get_last_sent_hash reads
    sent,        \* the reminders sent to the general channel, in order
    run          \* the running check_deadlines call: position and result

vars == <<pc, webdav_root, probed, visited, stack, pf, exc, queried, tree,
          out, exit_code, path_in, url_out, response, listed, state_file,
          sent, run>>

crawlVars == <<pc, webdav_root, probed, visited, stack, pf, exc, queried,
               tree, out, exit_code>>

None == [none |-> TRUE]

urlVars == <<path_in, url_out>>

parseVars == <<response, listed>>

botVars == <<state_file, sent, run>>

\* data/reminder_state.json when it does not exist
MissingFile == [kind |-> "missing"]

NoRun == [pc |-> "idle", result |-> "", ended |-> "never"]

\* the state of the parts of the program that are not running
ParseIdle == response = None /\ listed = None

BotIdle == state_file = MissingFile /\ sent = <<>> /\ run = NoRun

(***************************************************************************)
(* Bounds of the model.                                                    *)
(***************************************************************************)
MaxEntries == 2     \* response entries in one multi-status body
MaxLen == 4         \* length of the enumerated file paths
MaxResponses == 3   \* response entries of a document parsed on its own
MaxSent == 3        \* reminders sent by the deadline task

(***************************************************************************)
(* Program constants.                                                      *)
(***************************************************************************)
MaxRetries == 3     \* max_retries
Backoff == 8        \* backoff, in tenths of a second (0.8)

(***************************************************************************)
(* String helpers: the str methods the code uses.                          *)
(***************************************************************************)
Slash == "/"

RECURSIVE LStrip(_)
LStrip(s) == IF s # <<>> /\ Head(s) = Slash THEN LStrip(Tail(s)) ELSE s

RECURSIVE RStrip(_)
RStrip(s) ==
    IF s # <<>> /\ s[Len(s)] = Slash THEN RStrip(SubSeq(s, 1, Len(s) - 1)) ELSE s

\* s.strip("/")
Strip(s) == RStrip(LStrip(s))

\* s.split("/"): a non-empty sequence of (possibly empty) parts
RECURSIVE SplitAcc(_, _, _)
SplitAcc(s, cur, acc) ==
    IF s = <<>> THEN Append(acc, cur)
    ELSE IF Head(s) = Slash THEN SplitAcc(Tail(s), <<>>, Append(acc, cur))
    ELSE SplitAcc(Tail(s), Append(cur, Head(s)), acc)

Split(s) == SplitAcc(s, <<>>, <<>>)

\* "/".join(parts)
RECURSIVE Join(_)
Join(parts) ==
    IF parts = <<>> THEN <<>>
    ELSE IF Len(parts) = 1 THEN parts[1]
    ELSE parts[1] \o <<Slash>> \o Join(Tail(parts))

\* s.startswith(p)
StartsWith(s, p) == Len(s) >= Len(p) /\ SubSeq(s, 1, Len(p)) = p

\* s[n:]
Drop(s, n) == IF n >= Len(s) THEN <<>> ELSE SubSeq(s, n + 1, Len(s))

(***************************************************************************)
(* urllib.parse.quote: characters that are neither unreserved nor in safe  *)
(* become %XX (upper-case hex of the byte).                                *)
(***************************************************************************)
Unreserved == {"A", "B", "f", "i", "l", "e", "p", "d", ".", "-", "_", "~"}

PercentCode(c) ==
    CASE c = " " -> <<"%", "2", "0">>
      [] c = "%" -> <<"%", "2", "5">>
      [] c = "&" -> <<"%", "2", "6">>
      [] c = "/" -> <<"%", "2", "F">>

\* a quote that ignores its safe argument
QuoteNoSafe(s, safe) ==
    LET RECURSIVE q(_)
        q(t) == IF t = <<>> THEN <<>>
                ELSE (IF Head(t) \in Unreserved
                      THEN <<Head(t)>>
                      ELSE PercentCode(Head(t))) \o q(Tail(t))
    IN  q(s)

Quote(s, safe) ==
    LET RECURSIVE q(_)
        q(t) == IF t = <<>> THEN <<>>
                ELSE (IF Head(t) \in Unreserved \cup safe
                      THEN <<Head(t)>>
                      ELSE PercentCode(Head(t))) \o q(Tail(t))
    IN  q(s)

(***************************************************************************)
(* Crawler._browser_url_for_file                                           *)
(***************************************************************************)
base_share_url == <<"https://host/index.php/s/TOKEN/">>

BrowserUrlForFile(path) ==
    LET parts == Split(Strip(path))
        parent == IF Len(parts) = 1 THEN <<Slash>>
                  ELSE <<Slash>> \o Join(SubSeq(parts, 1, Len(parts) - 1))
        fname == parts[Len(parts)]
    IN  base_share_url \o <<"download">> \o <<"?path=">>
        \o Quote(parent, {Slash}) \o <<"&files=">> \o Quote(fname, {Slash})

(***************************************************************************)
(* URLs.  The two candidate roots of Crawler.__init__; urljoin for the     *)
(* references the crawler meets: an absolute URL replaces the base, a      *)
(* relative reference is appended to a base that ends in a slash.          *)
(***************************************************************************)
Origin == "https://host/public.php/"

Root1 == <<Origin, "webdav", Slash>>

Root2 == <<Origin, "dav/files/TOKEN", Slash>>

LoginUrl == <<"https://host/login">>

IsAbsolute(ref) == ref # <<>> /\ Head(ref) \in {Origin, Head(LoginUrl)}

UrlJoin(base, ref) == IF IsAbsolute(ref) THEN ref ELSE base \o ref

(***************************************************************************)
(* HTTP answers.  Status 0 stands for a transport failure                  *)
(* (requests.RequestException raised by session.request).                  *)
(***************************************************************************)
TransportFail == 0

ProbeStatuses == {TransportFail, 200, 207, 301, 302, 303, 401, 404}

\* Crawler._probe: the value returned for an answer
ProbeOkOnly207(status) == status = 207

ProbeOkAlso401(status) == status \in {207, 301, 302, 401}

ProbeOk(status) == status # TransportFail /\ status \in {207, 301, 302}

\* r.is_redirect or r.status_code in (301, 302, 303, 307, 308)
IsRedirect(status) == status \in {301, 302, 303, 307, 308}

\* r.raise_for_status() raises HTTPError for 4xx and 5xx only
RaisesForStatus(status) == 400 <= status /\ status < 600

\* time.sleep(self.backoff * attempt)
SleepConstant(a) == Backoff

SleepFor(a) == Backoff * a

(***************************************************************************)
(* What the server may answer to a depth-1 query: a multi-status document  *)
(* of at most MaxEntries response entries.  An entry carries the text of   *)
(* its d:href (empty when the element is missing), whether it has a d:prop *)
(* block, what its d:resourcetype holds, and the texts of getcontentlength,*)
(* getlastmodified and getcontenttype (empty when the element is missing). *)
(***************************************************************************)
ResourceTypes == {"absent", "empty", "collection"}

Meta(size, mtime, ctype) == [size |-> size, mtime |-> mtime, ctype |-> ctype]

NoMeta == Meta(<<>>, <<>>, <<>>)

\* a collection for which the server reports a length and a content type
DirMeta == Meta(<<"0">>, <<"Mon, 01 Jan">>, <<"httpd/unix-directory">>)

FileMeta == Meta(<<"1", "2">>, <<"Tue, 02 Jan">>, <<"application/pdf">>)

Response(href, prop, rtype, meta) ==
    [href |-> href, prop |-> prop, rtype |-> rtype, size |-> meta.size,
     mtime |-> meta.mtime, ctype |-> meta.ctype]

Entry(root, rel, coll, meta) ==
    Response(root \o rel \o (IF coll /\ rel # <<>> THEN <<Slash>> ELSE <<>>),
             TRUE, IF coll THEN "collection" ELSE "empty", meta)

ServerEntries(root) ==
    { Entry(root, <<>>, TRUE, NoMeta),
      Entry(root, <<"A">>, TRUE, DirMeta),
      Response(root \o <<"A", Slash, "B">>, TRUE, "collection", NoMeta),
      Entry(root, <<"f">>, FALSE, FileMeta) }

SeqsUpTo(S, n) == UNION {[1..k -> S] : k \in 0..n}

MultiStatusBodies(root) ==
    {[xml |-> TRUE, entries |-> es] : es \in SeqsUpTo(ServerEntries(root), MaxEntries)}

\* bodies of answers that are not multi-status: not XML at all, or a
\* document without any d:response element
OtherBodies == {[xml |-> FALSE, entries |-> <<>>], [xml |-> TRUE, entries |-> <<>>]}

\* r.text of an answer, read when list_dir parses it
BodiesFor(root, status) ==
    IF status = 207 THEN MultiStatusBodies(root) ELSE OtherBodies

\* an answer to one PROPFIND attempt: its status and its Location header
\* (empty when the header is absent)
PropfindAnswers ==
    {[status |-> st, location |-> <<>>] : st \in {TransportFail, 200, 207, 302, 404}}
    \cup {[status |-> 302, location |-> LoginUrl]}

(***************************************************************************)
(* Crawler._normalize_child_href, _node_from_prop, list_dir                *)
(***************************************************************************)
NormalizeChildHref(root, h) ==
    IF ~StartsWith(h, root) /\ StartsWith(h, <<Slash>>)
    THEN UrlJoin(root, LStrip(h))
    ELSE h

\* href[len(self.webdav_root):].strip("/")
RelOf(root, h) == Strip(Drop(h, Len(root)))

IsCollectionByHref(e) == e.href # <<>> /\ e.href[Len(e.href)] = Slash

\* rt is not None and rt.find("d:collection") is not None
IsCollection(e) == e.rtype = "collection"

\* str.isdigit(): non-empty and every character is a digit; the characters
\* it accepts include digits that are not decimal, written "^2" here for
\* U+00B2 (superscript two)
DecimalChars == {"0", "1", "2", "3", "4", "5", "6", "7", "8", "9"}

DigitChars == DecimalChars \cup {"^2"}

IsDigit(s) == s # <<>> /\ \A i \in 1..Len(s) : s[i] \in DigitChars

DigitValue(c) ==
    CASE c = "0" -> 0 [] c = "1" -> 1 [] c = "2" -> 2 [] c = "3" -> 3
      [] c = "4" -> 4 [] c = "5" -> 5 [] c = "6" -> 6 [] c = "7" -> 7
      [] c = "8" -> 8 [] c = "9" -> 9

\* int(s) accepts decimal digits only and raises ValueError otherwise
IntRaises(s) == s = <<>> \/ \E i \in 1..Len(s) : s[i] \notin DecimalChars

RECURSIVE IntOf(_)
IntOf(s) ==
    IF s = <<>> THEN 0
    ELSE 10 * IntOf(SubSeq(s, 1, Len(s) - 1)) + DigitValue(s[Len(s)])

\* an exception object: its class, and for those of _propfind the attempt
\* and the status it comes from
Exception(type, a, status) == [type |-> type, attempt |-> a, status |-> status]

\* a value of an optional field that is not None
Some(v) == [some |-> v]

\* x or None
OrNone(x) == IF x = <<>> THEN None ELSE Some(x)

Raised(type) == [kind |-> "raised", exc |-> Exception(type, 0, 0)]

IsRaised(x) == "kind" \in DOMAIN x /\ x.kind = "raised"

\* int(size) if size.isdigit() else None
SizeOf(size) ==
    IF ~IsDigit(size) THEN None
    ELSE IF IntRaises(size) THEN Raised("ValueError")
    ELSE Some(IntOf(size))

NodeFromProp(root, root_href, e) ==
    IF e.href = <<>> THEN None
    ELSE LET h == NormalizeChildHref(root, UrlJoin(root_href, e.href))
             rel == RelOf(root, h)
             parts == Split(rel)
             is_dir == IsCollection(e)
             size == SizeOf(e.size)
             name == IF rel # <<>> THEN parts[Len(parts)] ELSE <<>>
             node == [name |-> name, path |-> rel,
                      type |-> IF is_dir THEN "directory" ELSE "file",
                      size |-> size,
                      last_modified |-> OrNone(e.mtime),
                      content_type |-> OrNone(e.ctype)]
         IN  IF ~e.prop THEN None
             ELSE IF IsRaised(size) THEN size
             ELSE IF ~is_dir /\ rel # <<>>
             THEN node @@ [web_url |-> BrowserUrlForFile(rel)]
             ELSE node

\* the condition of list_dir under which a parsed node is dropped
IsSkipped(root, h, node) ==
    \/ node.path = <<>>
    \/ (RStrip(h) = RStrip(root) /\ node.name = <<>>)

RECURSIVE ListDirItemsBreak(_, _, _)
ListDirItemsBreak(root, h, entries) ==
    IF entries = <<>> THEN <<>>
    ELSE LET node == NodeFromProp(root, h, Head(entries))
             rest == ListDirItemsBreak(root, h, Tail(entries))
         IN  IF node = None THEN <<>>
             ELSE IF IsRaised(node) THEN <<>>
             ELSE IF IsSkipped(root, h, node) THEN rest
             ELSE <<node>> \o rest

\* list_dir's loop over the response entries: the items collected up to
\* the end of the response or to the entry whose parsing raises
RECURSIVE ListDirItems(_, _, _)
ListDirItems(root, h, entries) ==
    IF entries = <<>> THEN <<>>
    ELSE LET node == NodeFromProp(root, h, Head(entries))
             rest == ListDirItems(root, h, Tail(entries))
         IN  IF node = None THEN rest
             ELSE IF IsRaised(node) THEN <<>>
             ELSE IF IsSkipped(root, h, node) THEN rest
             ELSE <<node>> \o rest

\* list_dir on a parsed document: the items, or the error of the first
\* entry whose parsing raises
ListDir(root, h, entries) ==
    IF \E i \in 1..Len(entries) : IsRaised(NodeFromProp(root, h, entries[i]))
    THEN Raised("ValueError")
    ELSE [kind |-> "returned", items |-> ListDirItems(root, h, entries)]

(***************************************************************************)
(* crawl.walk: the visited check and mark                                  *)
(***************************************************************************)
InVisitedNever(rel, vis) == FALSE

\* if rel in visited
InVisited(rel, vis) == rel \in vis

MarkVisitedNot(rel, vis) == vis

\* visited.add(rel)
MarkVisited(rel, vis) == vis \cup {rel}

Frame(h, rel) == [href |-> h, rel |-> rel, children |-> <<>>, i |-> 0, result |-> <<>>]

(***************************************************************************)
(* Crawler._propfind.  pf is the frame of one call: its local href, the    *)
(* loop variable, last_exc, the requests sent and the sleeps made so far,  *)
(* and how the call ended.                                                 *)
(***************************************************************************)
RequestExceptions == {"ConnectionError", "HTTPError"}

ExcOf(a, status) ==
    Exception(IF status = TransportFail THEN "ConnectionError" ELSE "HTTPError",
              a, status)

\* return r.text: the text of the answer to attempt a
Returned(a, status) == [kind |-> "returned", attempt |-> a, status |-> status]

\* raise last_exc; raising None is a TypeError
RaiseLast(e) ==
    [kind |-> "raised",
     exc |-> IF e = None THEN Exception("TypeError", 0, 0) ELSE e]

NoCall ==
    [href |-> <<>>, attempt |-> 0, last_exc |-> None, attempts |-> <<>>,
     sleeps |-> <<>>, outcome |-> None]

NewCall(h) == [NoCall EXCEPT !.href = h]

NextAttemptUnlessRedirect(a, redirected) == IF redirected THEN a ELSE a + 1

\* for attempt in range(1, self.max_retries + 1): every iteration, the ones
\* left by continue included, takes the next value
NextAttempt(a, redirected) == a + 1

\* one iteration of the attempt loop for the answer r, the end of the loop
\* included when it is the last iteration
PropfindStep(p, r) ==
    LET redirected == r.status # TransportFail /\ r.status # 207
                      /\ IsRedirect(r.status)
        a == NextAttempt(p.attempt, redirected)
        raises == \/ r.status = TransportFail
                  \/ (r.status # 207 /\ ~redirected /\ RaisesForStatus(r.status))
        e == IF raises THEN ExcOf(a, r.status) ELSE p.last_exc
    IN  [href |-> IF redirected /\ r.location # <<>> THEN r.location ELSE p.href,
         attempt |-> a,
         last_exc |-> e,
         attempts |-> Append(p.attempts,
                             [url |-> p.href, n |-> a, status |-> r.status,
                              location |-> r.location]),
         sleeps |-> IF raises THEN Append(p.sleeps, SleepFor(a)) ELSE p.sleeps,
         outcome |-> IF ~raises /\ ~redirected THEN Returned(a, r.status)
                     ELSE IF a = MaxRetries THEN RaiseLast(e)
                     ELSE None]

\* a whole call: the loop run on a sequence of answers
RECURSIVE PropfindRun(_, _)
PropfindRun(p, answers) ==
    IF p.outcome # None \/ answers = <<>> THEN p
    ELSE PropfindRun(PropfindStep(p, Head(answers)), Tail(answers))

\* the URLs _propfind is called for
QueryUrls == {Root1, Root1 \o <<"A", Slash>>, Root2 \o <<"A", Slash, "B", Slash>>}

\* the ways a call can end, over all sequences of answers
PropfindOutcomes ==
    {PropfindRun(NewCall(h), as).outcome :
        h \in QueryUrls, as \in [1..MaxRetries -> PropfindAnswers]}

(***************************************************************************)
(* The crawler as a state machine.                                         *)
(***************************************************************************)
Init ==
    /\ pc = "probe1"
    /\ webdav_root = Root1
    /\ probed = <<>>
    /\ visited = {}
    /\ stack = <<>>
    /\ pf = NoCall
    /\ exc = None
    /\ queried = <<>>
    /\ tree = None
    /\ out = None
    /\ exit_code = "running"
    /\ path_in = <<>>
    /\ url_out = <<>>
    /\ ParseIdle
    /\ BotIdle

\* Crawler.__init__: the probe of the first candidate
Probe1 ==
    /\ pc = "probe1"
    /\ \E st \in ProbeStatuses :
          /\ probed' = Append(probed, [url |-> webdav_root, status |-> st])
          /\ pc' = IF ProbeOk(st) THEN "ready" ELSE "probe2"
    /\ UNCHANGED <<webdav_root, visited, stack, pf, exc, queried, tree, out,
                   exit_code, urlVars, parseVars,
                   botVars>>

\* Crawler.__init__: the probe of the alternative root; when it fails too,
\* RuntimeError reaches main's handler, which exits with status 1
Probe2 ==
    /\ pc = "probe2"
    /\ \E st \in ProbeStatuses :
          /\ probed' = Append(probed, [url |-> Root2, status |-> st])
          /\ IF ProbeOk(st)
             THEN /\ webdav_root' = Root2
                  /\ pc' = "ready"
                  /\ UNCHANGED <<exc, exit_code>>
             ELSE /\ pc' = "exit1"
                  /\ exc' = Exception("RuntimeError", 0, 0)
                  /\ exit_code' = "1"
                  /\ UNCHANGED webdav_root
    /\ UNCHANGED <<visited, stack, pf, queried, tree, out, urlVars, parseVars,
                   botVars>>

\* the ways list_dir(h) can end: _propfind raises; or it returns a text,
\* which ET.fromstring rejects (ParseError) or whose entries are parsed
ListDirResults(root, h) ==
    {[kind |-> "raised", exc |-> o.exc] :
        o \in {x \in PropfindOutcomes : x.kind = "raised"}}
    \cup {IF body.xml THEN ListDir(root, h, body.entries)
                      ELSE Raised("ParseError") :
            body \in UNION {BodiesFor(root, o.status) :
                        o \in {x \in PropfindOutcomes : x.kind = "returned"}}}

\* walk(h) past the visited check: mark rel, then list_dir(h): _propfind,
\* ET.fromstring (ParseError when the text is not XML) and the loop over
\* the response entries
EnterListDir(h, rel, below) ==
    /\ visited' = MarkVisited(rel, visited)
    /\ queried' = Append(queried, rel)
    /\ \E res \in ListDirResults(webdav_root, h) :
          IF res.kind = "returned"
          THEN /\ stack' = Append(below,
                      [Frame(h, rel) EXCEPT !.children = res.items, !.i = 1])
               /\ pc' = "walk"
               /\ UNCHANGED exc
          ELSE /\ exc' = res.exc
               /\ pc' = "raised"
               /\ stack' = Append(below, Frame(h, rel))

\* the constructor returns; main calls crawl(), which calls
\* walk(self.webdav_root)
CrawlStart ==
    /\ pc = "ready"
    /\ probed' = <<>>
    /\ ~InVisited(RelOf(webdav_root, webdav_root), {})
    /\ EnterListDir(webdav_root, RelOf(webdav_root, webdav_root), <<>>)
    /\ UNCHANGED <<webdav_root, pf, tree, out, exit_code, urlVars, parseVars,
                   botVars>>

Top == stack[Len(stack)]

Below == SubSeq(stack, 1, Len(stack) - 1)

SetTop(f) == [stack EXCEPT ![Len(stack)] = f]

Walking == pc = "walk" /\ stack # <<>>

HasChild == Top.i <= Len(Top.children)

Child == Top.children[Top.i]

\* urljoin(self.webdav_root, child["path"] + "/")
SubHref(child) == UrlJoin(webdav_root, child.path \o <<Slash>>)

\* walk's loop: a file child is appended as it is
WalkFile ==
    /\ Walking /\ HasChild
    /\ Child.type # "directory"
    /\ stack' = SetTop([Top EXCEPT !.result = Append(@, Child), !.i = @ + 1])
    /\ UNCHANGED <<pc, webdav_root, probed, visited, pf, exc, queried, tree,
                   out, exit_code, urlVars, parseVars,
                   botVars>>

\* walk's loop: a directory child whose path was visited gets walk's []
WalkDirVisited ==
    /\ Walking /\ HasChild
    /\ Child.type = "directory"
    /\ InVisited(RelOf(webdav_root, SubHref(Child)), visited)
    /\ stack' = SetTop([Top EXCEPT
           !.result = Append(@, Child @@ [children |-> <<>>]),
           !.i = @ + 1])
    /\ UNCHANGED <<pc, webdav_root, probed, visited, pf, exc, queried, tree,
                   out, exit_code, urlVars, parseVars,
                   botVars>>

\* walk's loop: a directory child not yet visited is walked
WalkDirEnter ==
    /\ Walking /\ HasChild
    /\ Child.type = "directory"
    /\ ~InVisited(RelOf(webdav_root, SubHref(Child)), visited)
    /\ EnterListDir(SubHref(Child), RelOf(webdav_root, SubHref(Child)), stack)
    /\ UNCHANGED <<webdav_root, probed, pf, tree, out, exit_code, urlVars, parseVars,
                   botVars>>

\* an inner walk returns result_children, which the caller attaches
WalkReturn ==
    /\ Walking /\ ~HasChild
    /\ Len(stack) > 1
    /\ LET parent == stack[Len(stack) - 1]
           child == parent.children[parent.i] @@ [children |-> Top.result]
       IN  stack' = [Below EXCEPT ![Len(Below)] =
                        [parent EXCEPT !.result = Append(@, child), !.i = @ + 1]]
    /\ UNCHANGED <<pc, webdav_root, probed, visited, pf, exc, queried, tree,
                   out, exit_code, urlVars, parseVars,
                   botVars>>

\* the outermost walk returns and crawl wraps it into the root node
CrawlReturn ==
    /\ Walking /\ ~HasChild
    /\ Len(stack) = 1
    /\ tree' = [type |-> "directory", name |-> <<>>, path |-> <<>>,
                children |-> Top.result]
    /\ stack' = <<>>
    /\ pc' = "crawled"
    /\ UNCHANGED <<webdav_root, probed, visited, pf, exc, queried, out,
                   exit_code, urlVars, parseVars,
                   botVars>>

\* main: json.dump(tree) into the output file
MainWrite ==
    /\ pc = "crawled"
    /\ out' = tree
    /\ exit_code' = "0"
    /\ pc' = "written"
    /\ UNCHANGED <<webdav_root, probed, visited, stack, pf, exc, queried,
                   tree, urlVars, parseVars,
                   botVars>>

\* where an exception raised under crawl() goes: neither list_dir, walk nor
\* crawl has a handler, so every walk call is left
UnwindOne(stk) ==
    IF Len(stk) <= 1 THEN <<>>
    ELSE LET rest == SubSeq(stk, 1, Len(stk) - 1)
             parent == rest[Len(rest)]
         IN  [rest EXCEPT ![Len(rest)] =
                 [parent EXCEPT
                     !.result = Append(@, parent.children[parent.i]
                                          @@ [children |-> <<>>]),
                     !.i = @ + 1]]

Unwind(stk) == <<>>

\* the exception reaches main's handler, which prints it and exits 1
MainExcept ==
    /\ pc = "raised"
    /\ stack' = Unwind(stack)
    /\ IF stack' = <<>>
       THEN exit_code' = "1" /\ pc' = "exit1"
       ELSE exit_code' = exit_code /\ pc' = "walk"
    /\ UNCHANGED <<webdav_root, probed, visited, pf, exc, queried, tree, out,
                   urlVars, parseVars,
                   botVars>>

Next ==
    \/ Probe1
    \/ Probe2
    \/ CrawlStart
    \/ WalkFile
    \/ WalkDirVisited
    \/ WalkDirEnter
    \/ WalkReturn
    \/ CrawlReturn
    \/ MainWrite
    \/ MainExcept

Spec == Init /\ [][Next]_vars

(***************************************************************************)
(* One call of _propfind on its own, attempt by attempt.                   *)
(***************************************************************************)
InitPropfind ==
    /\ pc = "propfind"
    /\ webdav_root = Root1
    /\ probed = <<>>
    /\ visited = {}
    /\ stack = <<>>
    /\ \E h \in QueryUrls : pf = NewCall(h)
    /\ exc = None
    /\ queried = <<>>
    /\ tree = None
    /\ out = None
    /\ exit_code = "running"
    /\ path_in = <<>>
    /\ url_out = <<>>
    /\ ParseIdle
    /\ BotIdle

PropfindAttempt ==
    /\ pc = "propfind"
    /\ pf.outcome = None
    /\ \E r \in PropfindAnswers : pf' = PropfindStep(pf, r)
    /\ UNCHANGED <<pc, webdav_root, probed, visited, stack, exc, queried,
                   tree, out, exit_code, urlVars, parseVars,
                   botVars>>

NextPropfind == PropfindAttempt

SpecPropfind == InitPropfind /\ [][NextPropfind]_vars

(***************************************************************************)
(* The URL builder on its own: the argument is the relative path of a file *)
(* node, that is a non-empty string without leading or trailing slash      *)
(* (_node_from_prop strips them and calls the builder only for non-empty   *)
(* paths).                                                                 *)
(***************************************************************************)
PathAlphabet == {"A", " ", "&", "%", Slash}

ExamplePath == <<"A", "/", "B", "/", "f", "i", "l", "e", ".", "p", "d", "f">>

StringsUpTo(n) == UNION {[1..k -> PathAlphabet] : k \in 1..n}

FilePaths ==
    {ExamplePath} \cup {s \in StringsUpTo(MaxLen) : Strip(s) = s}

CrawlIdle ==
    /\ webdav_root = Root1
    /\ probed = <<>>
    /\ visited = {}
    /\ stack = <<>>
    /\ pf = NoCall
    /\ exc = None
    /\ queried = <<>>
    /\ tree = None
    /\ out = None
    /\ exit_code = "running"

InitUrl ==
    /\ CrawlIdle
    /\ pc = "idle"
    /\ ParseIdle
    /\ BotIdle
    /\ path_in \in FilePaths
    /\ url_out = <<>>

BuildUrl ==
    /\ pc = "idle"
    /\ url_out = <<>>
    /\ url_out' = BrowserUrlForFile(path_in)
    /\ UNCHANGED <<crawlVars, path_in, parseVars, botVars>>

NextUrl == BuildUrl

SpecUrl == InitUrl /\ [][NextUrl]_vars

(***************************************************************************)
(* list_dir's parsing on its own: one multi-status document of at most     *)
(* MaxResponses entries, answered to the query of the root or of A/.  The  *)
(* entries include ones without d:href, ones without d:prop, every kind of *)
(* resourcetype, and length texts that are empty, decimal, non-numeric     *)
(* and a non-decimal digit.                                                *)
(***************************************************************************)
LetterMeta == Meta(<<"1", "a">>, <<>>, <<>>)

SuperscriptMeta == Meta(<<"^2">>, <<>>, <<"application/pdf">>)

ParseEntries(root) ==
    {Response(root \o <<"f">>, TRUE, rt, FileMeta) : rt \in ResourceTypes}
    \cup {Response(root \o <<"f">>, TRUE, "empty", m) :
             m \in {NoMeta, LetterMeta, SuperscriptMeta}}
    \cup {Response(root \o <<"A", Slash>>, TRUE, "collection", m) :
             m \in {NoMeta, FileMeta}}
    \cup {Response(root \o <<"A", Slash>>, TRUE, "absent", NoMeta),
          Response(root, TRUE, "collection", NoMeta),
          Response(<<>>, TRUE, "empty", FileMeta),
          Response(root \o <<"f">>, FALSE, "absent", NoMeta)}

InitParse ==
    /\ CrawlIdle
    /\ pc = "parse"
    /\ path_in = <<>>
    /\ url_out = <<>>
    /\ BotIdle
    /\ \E h \in {Root1, Root1 \o <<"A", Slash>>} :
       \E es \in SeqsUpTo(ParseEntries(Root1), MaxResponses) :
          response = [href |-> h, entries |-> es]
    /\ listed = None

ParseResponse ==
    /\ pc = "parse"
    /\ listed = None
    /\ listed' = ListDir(webdav_root, response.href, response.entries)
    /\ UNCHANGED <<crawlVars, urlVars, response, botVars>>

NextParse == ParseResponse

SpecParse == InitParse /\ [][NextParse]_vars

(***************************************************************************)
(* The deadline reminder: DeadlinesCog.check_deadlines, run once a day by  *)
(* tasks.loop, and utils/state_manager.  A text is a Python str, written   *)
(* as a string here.                                                       *)
(***************************************************************************)
NoDeadline == "NO_DEADLINE_FOUND"

\* what extract_next_day_deadlines may return
Results == {NoDeadline, "12.05 Math", "12.05 Physics", "13.05 Math"}

\* hashlib.sha1(text.encode("utf-8")).hexdigest(): a digest of 40 hex
\* digits, written by a short name; distinct texts may have one digest
Sha1(text) ==
    CASE text = NoDeadline -> "7c0e"
      [] text = "12.05 Math" -> "a94a"
      [] text = "12.05 Physics" -> "3f1b"
      [] text = "13.05 Math" -> "a94a"

Digests == {Sha1(t) : t \in Results}

\* the state file: missing, unreadable as JSON, or written by
\* save_last_sent_hash
CorruptFile == [kind |-> "corrupt"]

JsonFile(h) == [kind |-> "json", last_hash |-> h]

StateFiles == {MissingFile, CorruptFile} \cup {JsonFile(h) : h \in Digests}

\* get_last_sent_hash
GetLastSentHash(file) ==
    IF file.kind = "json" THEN Some(file.last_hash) ELSE None

\* save_last_sent_hash
SaveLastSentHash(text) == JsonFile(Sha1(text))

HasAlreadySentNever(text, file) == FALSE

\* has_already_sent
HasAlreadySent(text, file) == Some(Sha1(text)) = GetLastSentHash(file)

RunEnds(result, how) == [pc |-> "idle", result |-> result, ended |-> how]

InitDeadlines ==
    /\ CrawlIdle
    /\ pc = "bot"
    /\ path_in = <<>>
    /\ url_out = <<>>
    /\ ParseIdle
    /\ state_file \in StateFiles
    /\ sent = <<>>
    /\ run = NoRun

\* a run that ends before the extraction: a channel is missing
\* (lines 40-42) or the pinned message cannot be fetched (lines 44-48)
RunWithoutMessage ==
    /\ pc = "bot" /\ run.pc = "idle"
    /\ \E how \in {"no_channel", "fetch_failed"} : run' = RunEnds("", how)
    /\ UNCHANGED <<crawlVars, urlVars, parseVars, state_file, sent>>

\* result = extract_next_day_deadlines(msg.content, tomorrow)
RunExtract ==
    /\ pc = "bot" /\ run.pc = "idle"
    /\ \E t \in Results : run' = [pc |-> "extracted", result |-> t,
                                  ended |-> "running"]
    /\ UNCHANGED <<crawlVars, urlVars, parseVars, state_file, sent>>

\* if result == "NO_DEADLINE_FOUND": return
RunNoDeadline ==
    /\ pc = "bot" /\ run.pc = "extracted"
    /\ run.result = NoDeadline
    /\ run' = RunEnds(run.result, "no_deadline")
    /\ UNCHANGED <<crawlVars, urlVars, parseVars, state_file, sent>>

\* if has_already_sent(result): return
RunAlreadySent ==
    /\ pc = "bot" /\ run.pc = "extracted"
    /\ run.result # NoDeadline
    /\ HasAlreadySent(run.result, state_file)
    /\ run' = RunEnds(run.result, "already_sent")
    /\ UNCHANGED <<crawlVars, urlVars, parseVars, state_file, sent>>

\* await general_channel.send(...) succeeds
RunSend ==
    /\ pc = "bot" /\ run.pc = "extracted"
    /\ run.result # NoDeadline
    /\ ~HasAlreadySent(run.result, state_file)
    /\ Len(sent) < MaxSent
    /\ sent' = Append(sent, run.result)
    /\ run' = [run EXCEPT !.pc = "sent"]
    /\ UNCHANGED <<crawlVars, urlVars, parseVars, state_file>>

\* await general_channel.send(...) raises: the run ends there
RunSendFails ==
    /\ pc = "bot" /\ run.pc = "extracted"
    /\ run.result # NoDeadline
    /\ ~HasAlreadySent(run.result, state_file)
    /\ run' = RunEnds(run.result, "send_failed")
    /\ UNCHANGED <<crawlVars, urlVars, parseVars, state_file, sent>>

\* save_last_sent_hash(result)
RunSave ==
    /\ pc = "bot" /\ run.pc = "sent"
    /\ state_file' = SaveLastSentHash(run.result)
    /\ run' = RunEnds(run.result, "saved")
    /\ UNCHANGED <<crawlVars, urlVars, parseVars, sent>>

NextDeadlines ==
    \/ RunWithoutMessage
    \/ RunExtract
    \/ RunNoDeadline
    \/ RunAlreadySent
    \/ RunSend
    \/ RunSendFails
    \/ RunSave

SpecDeadlines == InitDeadlines /\ [][NextDeadlines]_vars

(***************************************************************************)
(* Helpers of the stated properties (not part of the program).             *)
(***************************************************************************)
LastSlash(s) ==
    LET idx == {i \in 1..Len(s) : s[i] = Slash}
    IN  IF idx = {} THEN 0 ELSE CHOOSE i \in idx : \A j \in idx : j <= i

FolderOf(s) == IF LastSlash(s) = 0 THEN <<>> ELSE SubSeq(s, 1, LastSlash(s) - 1)

FileNameOf(s) == Drop(s, LastSlash(s))

HexDecode(a, b) ==
    CASE a = "2" /\ b = "0" -> <<" ">>
      [] a = "2" /\ b = "5" -> <<"%">>
      [] a = "2" /\ b = "6" -> <<"&">>
      [] a = "2" /\ b = "F" -> <<Slash>>
      [] OTHER -> <<"?">>

RECURSIVE Unquote(_)
Unquote(s) ==
    IF s = <<>> THEN <<>>
    ELSE IF Head(s) = "%" /\ Len(s) >= 3
         THEN HexDecode(s[2], s[3]) \o Unquote(Drop(s, 3))
         ELSE <<Head(s)>> \o Unquote(Tail(s))

CountOf(c, s) == Cardinality({i \in 1..Len(s) : s[i] = c})

UrlChars == Unreserved \cup {"%", "0", "2", "5", "6", "F"}

ExampleFileName == <<"f", "i", "l", "e", ".", "p", "d", "f">>

\* the middle of u between the symbols "?path=" and "&files=", and its tail
PathParam(u) ==
    LET i == CHOOSE k \in 1..Len(u) : u[k] = "&files=" IN SubSeq(u, 4, i - 1)

FilesParam(u) ==
    LET i == CHOOSE k \in 1..Len(u) : u[k] = "&files=" IN Drop(u, i)

NoDuplicates(seq) ==
    \A i, j \in 1..Len(seq) : i # j => seq[i] # seq[j]

HasChildren(node) == "children" \in DOMAIN node

\* the paths of a list of nodes and of everything below them
RECURSIVE PathsOf(_)
PathsOf(nodes) ==
    IF nodes = <<>> THEN <<>>
    ELSE LET n == Head(nodes)
         IN  <<n.path>>
             \o (IF HasChildren(n) THEN PathsOf(n.children) ELSE <<>>)
             \o PathsOf(Tail(nodes))

\* a probe succeeds when it is answered 207, 301 or 302
ProbeSucceeded(p) == p.status \in {207, 301, 302}

\* an attempt fails: no answer, or an HTTP error status
AttemptFailed(a) == a.status = TransportFail \/ a.status >= 400

Ended == pf.outcome # None

HasExc == exc # None

(***************************************************************************)
(* C1: for every directory queried during a crawl, the child list that     *)
(* list_dir returns never contains the entry of the queried collection     *)
(* itself.                                                                 *)
(***************************************************************************)
Cex_C1 ==
    \A k \in 1..Len(stack) :
        stack[k].i >= 1 =>
            \A j \in 1..Len(stack[k].children) :
                stack[k].children[j].path # stack[k].rel

(***************************************************************************)
(* C2: in the tree returned by crawl no two nodes have the same non-empty  *)
(* path.                                                                   *)
(***************************************************************************)
Cex_C2 ==
    pc \in {"crawled", "written"} =>
        NoDuplicates(SelectSeq(PathsOf(tree.children), LAMBDA q : q # <<>>))

ReachesVisited ==
    /\ Walking /\ HasChild
    /\ Child.type = "directory"
    /\ RelOf(webdav_root, webdav_root \o Child.path \o <<Slash>>) \in visited

GuardStep ==
    ReachesVisited =>
        /\ queried' = queried
        /\ pf' = pf
        /\ visited' = visited
        /\ Len(stack') = Len(stack)
        /\ stack'[Len(stack)].i = Top.i + 1
        /\ stack'[Len(stack)].result = Append(Top.result, Child @@ [children |-> <<>>])

(***************************************************************************)
(* C3: when walk reaches a directory whose relative path is already in the *)
(* visited set it issues no query and the directory node gets an empty     *)
(* children list; no relative path is queried twice in one crawl.          *)
(***************************************************************************)
Thm_C3 == [](NoDuplicates(queried)) /\ [][GuardStep]_vars

Witness_C3 ==
    \E k \in 1..Len(stack) : \E j \in 1..Len(stack[k].result) :
        LET n == stack[k].result[j]
        IN  /\ n.type = "directory"
            /\ n.path = stack[k].rel
            /\ HasChildren(n) /\ n.children = <<>>

(***************************************************************************)
(* C4: _propfind returns a response body only for a 207 response.          *)
(***************************************************************************)
Cex_C4 ==
    (Ended /\ pf.outcome.kind = "returned") =>
        /\ pf.outcome.status = 207
        /\ pf.attempts[pf.outcome.attempt].status = 207

(***************************************************************************)
(* C5: when _propfind has used up all max_retries attempts without a 207   *)
(* response, it raises the request error encountered last.                 *)
(***************************************************************************)
Cex_C5 ==
    (Ended /\ pf.outcome.kind = "raised") =>
        /\ pf.outcome.exc.type \in RequestExceptions
        /\ AttemptFailed(pf.attempts[pf.outcome.exc.attempt])
        /\ \A i \in 1..Len(pf.attempts) :
              AttemptFailed(pf.attempts[i]) => i <= pf.outcome.exc.attempt

FailsThenSucceeds(k) ==
    /\ Len(pf.attempts) >= k + 1
    /\ \A i \in 1..k : AttemptFailed(pf.attempts[i])
    /\ pf.attempts[k + 1].status = 207

(***************************************************************************)
(* C6: when the first k attempts of a query fail (k < max_retries) and     *)
(* attempt k+1 is answered 207, exactly k+1 requests are sent, the sleep   *)
(* after the i-th failed attempt is backoff*i, and the text of attempt k+1 *)
(* is returned.                                                            *)
(***************************************************************************)
Thm_C6 ==
    \A k \in 0..(MaxRetries - 1) :
        FailsThenSucceeds(k) =>
            /\ Len(pf.attempts) = k + 1
            /\ pf.attempt = k + 1
            /\ pf.sleeps = [i \in 1..k |-> Backoff * i]
            /\ pf.outcome = [kind |-> "returned", attempt |-> k + 1, status |-> 207]

Witness_C6 ==
    /\ FailsThenSucceeds(2)
    /\ Ended /\ pf.outcome.kind = "returned"
    /\ pf.attempts[1].status = TransportFail
    /\ pf.attempts[2].status = 404

(***************************************************************************)
(* C7: the two candidates are probed in order, the second if and only if   *)
(* the probe of the first fails; when the first probe succeeds the         *)
(* resolved root is the first candidate and nothing is sent to the second. *)
(***************************************************************************)
Thm_C7 ==
    /\ Len(probed) <= 2
    /\ Len(probed) >= 1 => probed[1].url = Root1
    /\ Len(probed) = 2 => probed[2].url = Root2 /\ ~ProbeSucceeded(probed[1])
    /\ (Len(probed) >= 1 /\ ProbeSucceeded(probed[1])) =>
          /\ Len(probed) = 1
          /\ pc = "ready"
          /\ webdav_root = Root1
    /\ (Len(probed) = 1 /\ ~ProbeSucceeded(probed[1])) => pc = "probe2"
    /\ pc = "probe2" => Len(probed) = 1
    /\ (pc = "ready" /\ Len(probed) = 2) =>
          webdav_root = Root2 /\ ProbeSucceeded(probed[2])

Witness_C7 ==
    /\ pc = "ready"
    /\ Len(probed) = 1
    /\ probed[1].status = 301
    /\ webdav_root = Root1

BothProbesFailed ==
    /\ Len(probed) = 2
    /\ ~ProbeSucceeded(probed[1])
    /\ ~ProbeSucceeded(probed[2])

(***************************************************************************)
(* C8: when both probes fail, the constructor raises the configuration     *)
(* error after exactly two probe requests, crawl is not invoked, no        *)
(* depth-1 query is sent, and the program exits non-zero without writing   *)
(* the output file.                                                        *)
(***************************************************************************)
Thm_C8 ==
    /\ BothProbesFailed =>
          /\ pc = "exit1"
          /\ exit_code = "1"
          /\ HasExc /\ exc.type = "RuntimeError"
          /\ queried = <<>>
          /\ visited = {}
          /\ stack = <<>>
          /\ tree = None
          /\ out = None
    /\ (HasExc /\ exc.type = "RuntimeError") => BothProbesFailed

Witness_C8 ==
    /\ BothProbesFailed
    /\ probed[1].status = TransportFail
    /\ probed[2].status = 401
    /\ pc = "exit1"

QueryExhausted ==
    /\ pc \in {"raised", "exit1"}
    /\ HasExc
    /\ exc.type \in RequestExceptions \cup {"TypeError"}

AbortStep ==
    (pc = "raised" /\ QueryExhausted) =>
        /\ pc' = "exit1"
        /\ exit_code' = "1"
        /\ stack' = <<>>
        /\ queried' = queried
        /\ tree' = None
        /\ out' = None

(***************************************************************************)
(* C9: when a directory query at any depth exhausts its retries, crawl     *)
(* returns no tree: the error leaves every walk level, no further query is *)
(* issued, and main writes no output file; the output is written only      *)
(* after crawl has returned a complete tree.                               *)
(***************************************************************************)
Thm_C9 ==
    /\ [](QueryExhausted => (tree = None /\ out = None))
    /\ [](out # None => (pc = "written" /\ out = tree /\ stack = <<>>))
    /\ [][AbortStep]_vars
    /\ [][pc = "exit1" => UNCHANGED vars]_vars

Witness_C9 ==
    /\ pc = "exit1"
    /\ QueryExhausted
    /\ Len(queried) >= 3
    /\ out = None

(***************************************************************************)
(* C10 (as stated): for the path A/B/file.pdf the builder returns the base *)
(* share URL followed by download?path=%2FA%2FB&files=file.pdf.            *)
(***************************************************************************)
Cex_C10 ==
    (url_out # <<>> /\ path_in = ExamplePath) =>
        url_out = base_share_url \o <<"download", "?path=">>
                  \o <<"%", "2", "F", "A", "%", "2", "F", "B">>
                  \o <<"&files=">> \o ExampleFileName

(***************************************************************************)
(* C10 (amended): for the path A/B/file.pdf the builder returns the base   *)
(* share URL followed by download?path=/A/B&files=file.pdf; in general the *)
(* result is base + "download?path=" + P + "&files=" + F where P is the    *)
(* percent-encoding of "/" + parent folder with every slash left as it is, *)
(* F is the percent-encoding of the file name, and the parent is "/" for a *)
(* file directly under the root.                                           *)
(***************************************************************************)
Thm_C10 ==
    url_out # <<>> =>
        /\ path_in = ExamplePath =>
               url_out = base_share_url \o <<"download", "?path=">>
                         \o <<Slash, "A", Slash, "B">>
                         \o <<"&files=">> \o ExampleFileName
        /\ StartsWith(url_out, base_share_url \o <<"download", "?path=">>)
        /\ Cardinality({k \in 1..Len(url_out) : url_out[k] = "&files="}) = 1
        /\ LET P == PathParam(url_out)
               F == FilesParam(url_out)
           IN  /\ Unquote(P) = <<Slash>> \o FolderOf(path_in)
               /\ Unquote(F) = FileNameOf(path_in)
               /\ \A i \in 1..Len(P) : P[i] \in UrlChars \cup {Slash}
               /\ \A i \in 1..Len(F) : F[i] \in UrlChars
               /\ CountOf(Slash, P) = 1 + CountOf(Slash, FolderOf(path_in))

Witness_C10 == url_out # <<>> /\ path_in = ExamplePath


(***************************************************************************)
(* Helpers of the properties of the nodes (not part of the program).       *)
(***************************************************************************)
\* the nodes of a list and everything below them
RECURSIVE NodesOf(_)
NodesOf(nodes) ==
    IF nodes = <<>> THEN {}
    ELSE LET n == Head(nodes)
         IN  {n} \cup (IF HasChildren(n) THEN NodesOf(n.children) ELSE {})
                 \cup NodesOf(Tail(nodes))

\* a node carries a field when it has the key with a value other than None
Carries(node, f) == f \in DOMAIN node /\ node[f] # None

TreeNodes == IF tree = None THEN {} ELSE NodesOf(<<tree>>)

(***************************************************************************)
(* C11: in every tree returned by crawl, a directory node carries none of  *)
(* size, content_type and web_url, a file node carries no children, and    *)
(* web_url is present exactly on the file nodes with a non-empty path.     *)
(***************************************************************************)
Cex_C11 ==
    \A n \in TreeNodes :
        /\ n.type = "directory" =>
              ~Carries(n, "size") /\ ~Carries(n, "content_type")
              /\ ~Carries(n, "web_url")
        /\ n.type = "file" => ~Carries(n, "children")
        /\ Carries(n, "web_url") <=> (n.type = "file" /\ n.path # <<>>)


(***************************************************************************)
(* Helpers of the properties of list_dir's parsing.                        *)
(***************************************************************************)
\* an entry that has both a d:href text and a d:prop block
WellFormed(e) == e.href # <<>> /\ e.prop

ParseOf(e) == NodeFromProp(webdav_root, response.href, e)

EntryRaises(e) == WellFormed(e) /\ IsRaised(ParseOf(e))

\* the entries whose node list_dir appends
IsKept(e) ==
    /\ WellFormed(e)
    /\ ~IsRaised(ParseOf(e))
    /\ ~IsSkipped(webdav_root, response.href, ParseOf(e))

KeptEntries == SelectSeq(response.entries, IsKept)

EntriesOfResponse == {response.entries[i] : i \in 1..Len(response.entries)}

(***************************************************************************)
(* C12: a response entry without href or without prop block produces no    *)
(* node and no error; list_dir returns, in response order, the nodes of    *)
(* the other entries of the response (an error can only come from a        *)
(* well-formed entry).                                                     *)
(***************************************************************************)
Thm_C12 ==
    listed # None =>
        /\ \A e \in EntriesOfResponse : ~WellFormed(e) => ParseOf(e) = None
        /\ IF \E e \in EntriesOfResponse : EntryRaises(e)
           THEN IsRaised(listed)
           ELSE /\ listed.kind = "returned"
                /\ Len(listed.items) = Len(KeptEntries)
                /\ \A k \in 1..Len(KeptEntries) :
                      listed.items[k] = ParseOf(KeptEntries[k])

Witness_C12 ==
    /\ listed # None
    /\ Len(response.entries) = 3
    /\ ~WellFormed(response.entries[2])
    /\ listed.kind = "returned"
    /\ Len(listed.items) = 2
    /\ listed.items[1].path # listed.items[2].path


(***************************************************************************)
(* C13: for every getcontentlength text, the node's size is the integer    *)
(* value when the text consists only of digits and None otherwise, and     *)
(* parsing the entry never raises because of the size text.                *)
(***************************************************************************)
Cex_C13 ==
    listed # None =>
        \A e \in EntriesOfResponse :
            WellFormed(e) =>
                /\ ~IsRaised(ParseOf(e))
                /\ ParseOf(e).size = IF IsDigit(e.size)
                                     THEN Some(IntOf(e.size)) ELSE None


\* the relative paths whose response entries hold a d:collection marker
CollectionPaths ==
    {RelOf(webdav_root, e.href) :
        e \in {x \in ServerEntries(webdav_root) : x.rtype = "collection"}}

\* a step that issues the query of a walk below the root's
RecursionStep == queried' # queried /\ queried # <<>>

(***************************************************************************)
(* C14: every node of the returned tree, at any depth, has type directory  *)
(* exactly when the resourcetype of its response entry held a collection   *)
(* marker, and walk issues the query of a child only if the child is a     *)
(* directory node.                                                         *)
(***************************************************************************)
Thm_C14 ==
    /\ [](\A n \in TreeNodes :
             n.type = "directory" <=> n.path \in CollectionPaths)
    /\ [][RecursionStep =>
             /\ Walking /\ HasChild
             /\ Child.type = "directory"
             /\ Child.path \in CollectionPaths
             /\ queried' = Append(queried, Child.path)]_vars

Witness_C14 ==
    /\ tree # None
    /\ Len(queried) = 3
    /\ \E n \in TreeNodes :
          /\ n.path = <<"A", Slash, "B">>
          /\ n.type = "directory"
          /\ HasChildren(n)
          /\ \E k \in 1..Len(n.children) : n.children[k].type = "file"


\* the request sent by a step of _propfind
LastAttempt(p) == p.attempts[Len(p.attempts)]

RedirectAnswered(a) == a.status # TransportFail /\ IsRedirect(a.status)

\* what a step of _propfind does: one more request, sent to the current
\* target; a redirect answer makes no sleep, puts the Location value (when
\* there is one) in place of the target and leaves the call running unless
\* it was the last iteration
AttemptStep ==
    pf' # pf =>
        /\ Len(pf'.attempts) = Len(pf.attempts) + 1
        /\ LastAttempt(pf').url = pf.href
        /\ RedirectAnswered(LastAttempt(pf')) =>
              /\ pf'.sleeps = pf.sleeps
              /\ pf'.href = IF LastAttempt(pf').location # <<>>
                            THEN LastAttempt(pf').location ELSE pf.href
              /\ (pf'.outcome = None) <=> (Len(pf'.attempts) < MaxRetries)

FailedBeforeFinal ==
    {i \in 1..Len(pf.attempts) :
        AttemptFailed(pf.attempts[i]) /\ i < MaxRetries}

(***************************************************************************)
(* C16: every backoff sleep of _propfind is followed by another attempt of *)
(* the same query: there is one sleep per failed attempt that is not the   *)
(* final one, and none after the failure of the final attempt.             *)
(***************************************************************************)
Cex_C16 ==
    /\ Len(pf.sleeps) = Cardinality(FailedBeforeFinal)
    /\ (Ended /\ pf.outcome.kind = "raised") =>
          Len(pf.sleeps) < Len(pf.attempts)


(***************************************************************************)
(* Helpers of the termination property of crawl.                           *)
(***************************************************************************)
\* the paths of the server's directories, the root's (the empty path) aside
DirectoryPaths == CollectionPaths \ {<<>>}

\* how many paths the server reports as collections, the root included
CollectionCount ==
    Cardinality({x \in ServerEntries(Root1) : x.rtype = "collection"})

\* the iterations the loops of the active walk calls still have to make
RECURSIVE PendingWork(_)
PendingWork(stk) ==
    IF stk = <<>> THEN 0
    ELSE (Len(Head(stk).children) + 1 - Head(stk).i) + 1
         + PendingWork(Tail(stk))

\* a quantity in the naturals that every step of a running crawl decreases
\* (a running crawl has an active walk call, whose loop or return is the
\* next step): the directories not yet queried weigh more than the work
\* one query adds (visited holds paths of collections only)
Variant ==
    (MaxEntries + 3) * (CollectionCount - Cardinality(visited))
    + PendingWork(stack)

CrawlRunning == pc \in {"walk", "raised"}

PositionIn(seq, x) == CHOOSE i \in 1..Len(seq) : seq[i] = x

\* the active walk calls form one chain: each call below the top waits in
\* its loop at a directory child, whose query is the next call's and came
\* after its own, with the children before it done and the ones after it
\* untouched
DepthFirst ==
    /\ \A k \in 1..Len(stack) :
          /\ \E i \in 1..Len(queried) : queried[i] = stack[k].rel
          /\ stack[k].i >= 1 => Len(stack[k].result) = stack[k].i - 1
    /\ \A k \in 1..(Len(stack) - 1) :
          /\ stack[k].i \in 1..Len(stack[k].children)
          /\ stack[k].children[stack[k].i].type = "directory"
          /\ stack[k].children[stack[k].i].path = stack[k + 1].rel
          /\ PositionIn(queried, stack[k].rel)
                < PositionIn(queried, stack[k + 1].rel)
    /\ stack # <<>> => queried[Len(queried)] \in
                          {stack[Len(stack)].rel}
                          \cup {n.path : n \in NodesOf(stack[Len(stack)].result)}

(***************************************************************************)
(* C17: for a server that mentions a finite set of paths, cyclic and       *)
(* self-referential listings included, crawl ends (returns a tree or       *)
(* raises) after at most one depth-1 query per distinct directory path     *)
(* plus one for the root, issued one at a time in depth-first order.       *)
(***************************************************************************)
Thm_C17 ==
    /\ [](/\ NoDuplicates(queried)
          /\ \A i \in 1..Len(queried) : queried[i] \in CollectionPaths
          /\ queried # <<>> => queried[1] = <<>>
          /\ Len(queried) <= Cardinality(DirectoryPaths) + 1
          /\ visited \subseteq CollectionPaths
          /\ DepthFirst
          /\ Variant >= 0
          /\ CrawlRunning => stack # <<>>)
    /\ [][CrawlRunning => Variant' < Variant]_vars

Witness_C17 ==
    /\ pc = "crawled"
    /\ queried = <<<<>>, <<"A">>, <<"A", Slash, "B">>>>
    /\ \E n \in TreeNodes :
          /\ n.path = <<"A", Slash, "B">>
          /\ \E k \in 1..Len(n.children) : n.children[k].path = <<"A">>


\* the hash get_last_sent_hash returns, None when there is none
StoredHash == GetLastSentHash(state_file)

SendStep == sent' # sent

StoreStep == state_file' # state_file

(***************************************************************************)
(* C18: across the runs of check_deadlines, a reminder is sent only when   *)
(* the extracted result is not NO_DEADLINE_FOUND and its hash differs from *)
(* the stored last-sent hash; the stored hash is replaced only after a     *)
(* successful send, by the hash of the text sent (a skipped or failed run  *)
(* leaves the file as it is); the same text is never sent by two           *)
(* consecutive sends.                                                      *)
(***************************************************************************)
Thm_C18 ==
    /\ [][SendStep =>
             /\ run.result # NoDeadline
             /\ Some(Sha1(run.result)) # StoredHash
             /\ sent' = Append(sent, run.result)
             /\ state_file' = state_file]_vars
    /\ [][StoreStep =>
             /\ run.pc = "sent" /\ run'.ended = "saved"
             /\ sent' = sent /\ sent # <<>>
             /\ state_file' = JsonFile(Sha1(sent[Len(sent)]))]_vars
    /\ [](run.ended \notin {"running", "saved", "never"} =>
             run.pc = "idle")
    /\ [](\A i \in 1..(Len(sent) - 1) : sent[i] # sent[i + 1])

Witness_C18 ==
    /\ sent = <<"12.05 Math", "12.05 Physics">>
    /\ run.ended = "already_sent"
    /\ run.result = "12.05 Physics"
    /\ StoredHash = Some(Sha1("12.05 Physics"))

=============================================================================
